---- MODULE Spec2Model ----
(***************************************************************************)
(* Model of the CPE harbor adapter, src/cpe_harbor/cpe.py: class CPE with   *)
(* name(), version(), populate_context_post_run() and                      *)
(* create_run_agent_commands().                                            *)
(*                                                                         *)
(* Python strings that the code takes apart (the model name, the           *)
(* instruction, the command) are sequences of one-character strings.       *)
(* Strings the code only copies or tests for emptiness (API-key values,    *)
(* the version) are TLA+ strings.  An Optional value is a sequence of      *)
(* length 0 (None) or 1 (the value).                                       *)
(***************************************************************************)
EXTENDS Integers, Sequences, FiniteSets, TLC

VARIABLES
    model_name,   \* self.model_name : Optional[str]
    _version,     \* self._version   : Optional[str]
    environ,      \* os.environ      : name -> value
    context,      \* the host's AgentContext handed to populate_context_post_run
    returned,     \* the last call on the adapter and what it returned
    frames,       \* per thread: the locals of a create_run_agent_commands call
    heap,         \* dict objects allocated by "env: dict[str, str] = {}"
    results       \* per thread: the list returned by its call

vars == <<model_name, _version, environ, context, returned, frames, heap, results>>

----------------------------------------------------------------------------
(* Bounds                                                                  *)

\* longest instruction of the adapter-level specification Spec
MaxInstrLen == 1
\* longest instruction of the command-string specification SpecQuote
MaxLen == 3
\* number of threads calling concurrently in SpecConc
NumThreads == 2

----------------------------------------------------------------------------
(* Optional values                                                         *)

None == <<>>
Some(x) == <<x>>

\* Python truthiness of an Optional[str]: neither None nor empty
TruthyStr(o) == o # None /\ o[1] # ""
TruthySeq(o) == o # None /\ o[1] # <<>>

----------------------------------------------------------------------------
(* Words used by the code                                                  *)

anthropic == <<"a","n","t","h","r","o","p","i","c">>
openai == <<"o","p","e","n","a","i">>
gemini == <<"g","e","m","i","n","i">>
google == <<"g","o","o","g","l","e">>

ANTHROPIC_API_KEY == "ANTHROPIC_API_KEY"
OPENAI_API_KEY == "OPENAI_API_KEY"
GEMINI_API_KEY == "GEMINI_API_KEY"

KeyVars == {ANTHROPIC_API_KEY, OPENAI_API_KEY, GEMINI_API_KEY}

----------------------------------------------------------------------------
(* Dictionaries                                                            *)

EmptyDict == [k \in {} |-> ""]

\* d[k] = v
DictSet(d, k, v) == [x \in (DOMAIN d) \cup {k} |-> IF x = k THEN v ELSE d[x]]

\* os.environ.get(k, "")
EnvironGet(e, k) == IF k \in DOMAIN e THEN e[k] ELSE ""

----------------------------------------------------------------------------
(* Provider resolution, lines 37-55                                        *)

HasSlash(s) == \E i \in 1..Len(s) : s[i] = "/"

FirstSlash(s) == CHOOSE i \in 1..Len(s) : s[i] = "/" /\ \A j \in 1..(i-1) : s[j] # "/"

\* mutant: the whole name is the provider when it holds no "/"
ProviderOf_NoSlashCheck(name) ==
    IF HasSlash(name) THEN SubSeq(name, 1, FirstSlash(name) - 1) ELSE name

\* self.model_name.split("/")[0] if "/" in self.model_name else ""
ProviderOf(name) ==
    IF HasSlash(name) THEN SubSeq(name, 1, FirstSlash(name) - 1) ELSE <<>>

\* mutant: the value is copied without the "if api_key" test
CopyKey_NoEmptyTest(env, e, k) == DictSet(env, k, EnvironGet(e, k))

\* api_key = os.environ.get(k, ""); if api_key: env[k] = api_key
CopyKey(env, e, k) ==
    LET api_key == EnvironGet(e, k)
    IN  IF api_key # "" THEN DictSet(env, k, api_key) ELSE env

\* mutant: a provider that matches nothing falls back to Anthropic
ProviderEnv_UnknownIsDefault(provider, e) ==
    IF provider = openai THEN CopyKey(EmptyDict, e, OPENAI_API_KEY)
    ELSE IF provider = gemini \/ provider = google THEN CopyKey(EmptyDict, e, GEMINI_API_KEY)
    ELSE CopyKey(EmptyDict, e, ANTHROPIC_API_KEY)

\* mutant: every key the ambient environment holds is forwarded
ProviderEnv_AllKeys(provider, e) ==
    CopyKey(CopyKey(CopyKey(EmptyDict, e, ANTHROPIC_API_KEY), e, OPENAI_API_KEY),
            e, GEMINI_API_KEY)

\* the three "if provider == ..." statements of lines 39-50, in order
ProviderEnv(provider, e) ==
    LET env0 == EmptyDict
        env1 == IF provider = anthropic \/ provider = <<>>
                THEN CopyKey(env0, e, ANTHROPIC_API_KEY) ELSE env0
        env2 == IF provider = openai
                THEN CopyKey(env1, e, OPENAI_API_KEY) ELSE env1
        env3 == IF provider = gemini \/ provider = google
                THEN CopyKey(env2, e, GEMINI_API_KEY) ELSE env2
    IN  env3

\* lines 35-55: the env dict of one call
BuildEnv(mn, e) ==
    IF TruthySeq(mn)
    THEN ProviderEnv(ProviderOf(mn[1]), e)
    ELSE CopyKey(EmptyDict, e, ANTHROPIC_API_KEY)

----------------------------------------------------------------------------
(* shlex.quote, line 32                                                    *)

Letters ==
    {"a","b","c","d","e","f","g","h","i","j","k","l","m","n","o","p","q","r","s","t",
     "u","v","w","x","y","z","A","B","C","D","E","F","G","H","I","J","K","L","M","N",
     "O","P","Q","R","S","T","U","V","W","X","Y","Z"}
Digits == {"0","1","2","3","4","5","6","7","8","9"}

\* the complement of shlex's _find_unsafe class [^\w@%+=:,./-] (re.ASCII)
SafeChars == Letters \cup Digits \cup {"_","@","%","+","=",":",",",".","/","-"}

RECURSIVE ReplaceQuotes(_)
\* s.replace("'", "'\"'\"'")
ReplaceQuotes(s) ==
    IF s = <<>> THEN <<>>
    ELSE (IF Head(s) = "'" THEN <<"'","\"","'","\"","'">> ELSE <<Head(s)>>)
         \o ReplaceQuotes(Tail(s))

\* mutant: embedded single quotes are not rewritten
quote_NoReplace(s) ==
    IF s = <<>> THEN <<"'","'">>
    ELSE IF \A i \in 1..Len(s) : s[i] \in SafeChars THEN s
    ELSE <<"'">> \o s \o <<"'">>

\* shlex.quote(s)
quote(s) ==
    IF s = <<>> THEN <<"'","'">>
    ELSE IF \A i \in 1..Len(s) : s[i] \in SafeChars THEN s
    ELSE <<"'">> \o ReplaceQuotes(s) \o <<"'">>

----------------------------------------------------------------------------
(* The command string, lines 59-63                                         *)

\* 'export PATH="/root/go/bin:/usr/local/go/bin:$PATH" && '
PathPrefix ==
    <<"e","x","p","o","r","t"," ","P","A","T","H","=","\"","/","r","o","o","t","/",
      "g","o","/","b","i","n",":","/","u","s","r","/","l","o","c","a","l","/","g","o",
      "/","b","i","n",":","$","P","A","T","H","\""," ","&","&"," ">>

\* "cpe -n -G --skip-stdin "
Invocation ==
    <<"c","p","e"," ","-","n"," ","-","G"," ","-","-","s","k","i","p","-","s","t","d",
      "i","n"," ">>

\* " 2>&1 | tee /logs/agent/cpe.txt" (the blank closes the f-string of line 61)
LogSuffix ==
    <<" ","2",">","&","1"," ","|"," ","t","e","e"," ","/","l","o","g","s","/","a","g",
      "e","n","t","/","c","p","e",".","t","x","t">>

\* the command= argument of ExecInput
Command(escaped_instruction) ==
    PathPrefix \o Invocation \o escaped_instruction \o LogSuffix

\* mutant: the model name is passed on the command line
RunAgentCommands_ModelFlag(instruction, mn, e) ==
    << [command |-> PathPrefix \o Invocation
                    \o (IF TruthySeq(mn) THEN <<"-","m"," ">> \o mn[1] \o <<" ">> ELSE <<>>)
                    \o quote(instruction) \o LogSuffix,
        env |-> BuildEnv(mn, e)] >>

\* mutant: nothing to run when no key was found
RunAgentCommands_SkipWithoutKey(instruction, mn, e) ==
    IF BuildEnv(mn, e) = EmptyDict THEN <<>>
    ELSE << [command |-> Command(quote(instruction)), env |-> BuildEnv(mn, e)] >>

\* create_run_agent_commands(instruction) on an adapter configured with mn,
\* under the ambient environment e: the returned list
RunAgentCommands(instruction, mn, e) ==
    << [command |-> Command(quote(instruction)), env |-> BuildEnv(mn, e)] >>

\* mutant: the configured value is returned as it is
VersionOf_NoDefault(v) == v

\* self._version or "latest"
VersionOf(v) == IF TruthyStr(v) THEN v ELSE Some("latest")

----------------------------------------------------------------------------
(* Inputs                                                                  *)

StringsUpTo(A, n) == UNION {[1..k -> A] : k \in 0..n}

Slash(p, r) == p \o <<"/">> \o r

unknownprovider == <<"u","n","k","n","o","w","n","p","r","o","v","i","d","e","r">>
OpenAI == <<"O","p","e","n","A","I">>
claude == <<"c","l","a","u","d","e">>

KnownProviders == {anthropic, openai, gemini, google}
UnknownProviders == {unknownprovider, OpenAI, <<"x">>, openai \o <<"x">>}

\* "provider/model" names, names with a second "/", bare names, "/x" and ""
Names ==
    {Slash(p, <<"x">>) : p \in KnownProviders \cup UnknownProviders}
    \cup {Slash(openai, <<"g","p","t","-","5">>), Slash(gemini, <<"p","r","o">>)}
    \cup {Slash(openai, <<"x","/","y">>), Slash(<<"x">>, openai), Slash(<<>>, <<"x">>)}
    \cup {<<>>, claude, openai, gemini}

ModelNames == {None} \cup {Some(n) : n \in Names}

KeyValue ==
    [k \in KeyVars |-> IF k = ANTHROPIC_API_KEY THEN "sk-ant"
                       ELSE IF k = OPENAI_API_KEY THEN "k1" ELSE "g-key"]

\* every ambient environment: each key variable absent, empty or set; PATH set
Environs ==
    { [k \in S \cup {"PATH"} |->
          IF k = "PATH" THEN "/usr/bin" ELSE IF k \in E THEN "" ELSE KeyValue[k]]
      : S \in SUBSET KeyVars, E \in SUBSET KeyVars }

Versions == {None, Some(""), Some("1.2.3")}

Contexts == {[n_input_tokens |-> None], [n_input_tokens |-> Some(10)]}

Instructions == StringsUpTo({"a", "'", " "}, MaxInstrLen)

Threads == 1..NumThreads

IdleFrame ==
    [pc |-> "idle", instruction |-> <<>>, escaped_instruction |-> <<>>,
     env |-> 0, provider |-> <<>>, api_key |-> ""]

NoCall == [op |-> "none", arg |-> None, value |-> None]

----------------------------------------------------------------------------
(* The adapter, one action per method                                      *)

Quiet == UNCHANGED <<frames, heap, results>>

Init ==
    /\ model_name \in ModelNames
    /\ _version \in Versions
    /\ environ \in Environs
    /\ context \in Contexts
    /\ returned = NoCall
    /\ frames = [t \in Threads |-> IdleFrame]
    /\ heap = <<>>
    /\ results = [t \in Threads |-> None]

\* name(), lines 16-18
Name ==
    /\ returned' = [op |-> "name", arg |-> None, value |-> "cpe"]
    /\ UNCHANGED <<model_name, _version, environ, context>>
    /\ Quiet

\* version(), lines 20-21
Version ==
    /\ returned' = [op |-> "version", arg |-> None, value |-> VersionOf(_version)]
    /\ UNCHANGED <<model_name, _version, environ, context>>
    /\ Quiet

\* mutant: the hook records a token count in the context
PopulateContextPostRun_Fills ==
    /\ context' = [context EXCEPT !.n_input_tokens = Some(0)]
    /\ returned' = [op |-> "populate_context_post_run", arg |-> None, value |-> None]
    /\ UNCHANGED <<model_name, _version, environ>>
    /\ Quiet

\* populate_context_post_run(context), lines 27-29: pass
PopulateContextPostRun ==
    /\ context' = context
    /\ returned' = [op |-> "populate_context_post_run", arg |-> None, value |-> None]
    /\ UNCHANGED <<model_name, _version, environ>>
    /\ Quiet

\* create_run_agent_commands(instruction), lines 31-66
CreateRunAgentCommands(instruction) ==
    /\ returned' = [op |-> "create_run_agent_commands", arg |-> instruction,
                    value |-> RunAgentCommands(instruction, model_name, environ)]
    /\ UNCHANGED <<model_name, _version, environ, context>>
    /\ Quiet

Next ==
    \/ Name
    \/ Version
    \/ PopulateContextPostRun
    \/ \E instruction \in Instructions : CreateRunAgentCommands(instruction)

Spec == Init /\ [][Next]_vars

----------------------------------------------------------------------------
(* How a POSIX shell reads a command string (token recognition and        *)
(* quoting, XCU 2.2 and 2.3).  Not part of the adapter: the host hands     *)
(* the command to a shell, and the claims about the command string are     *)
(* stated over what that shell sees.  A token is an operator, an           *)
(* IO number, or a word with its text after quote removal; exp tells       *)
(* whether the shell would expand anything in the word (parameter or       *)
(* command substitution, pathname or tilde expansion).                     *)

\* the character U+0060; SANY cannot read it inside a string, so it has a name
Backtick == "U+0060"

Blanks == {" ", "\t"}
OpChars == {";", "&", "|", "<", ">", "(", ")"}
MultiOps ==
    {<<"&","&">>, <<"|","|">>, <<";",";">>, <<"<","<">>, <<">",">">>,
     <<"<","&">>, <<">","&">>, <<"<",">">>, <<">","|">>}
DQuoteEscapable == {"$", Backtick, "\"", "\\", "\n"}

LexStart ==
    [mode |-> "n", word |-> <<>>, inword |-> FALSE, exp |-> FALSE, plain |-> TRUE,
     lastop |-> FALSE, toks |-> <<>>]

\* the word being read ends
EndWord(st) ==
    IF st.inword
    THEN [st EXCEPT !.toks = Append(@, [kind |-> "word", text |-> st.word, exp |-> st.exp]),
                    !.word = <<>>, !.inword = FALSE, !.exp = FALSE, !.plain = TRUE]
    ELSE st

\* digits right before "<" or ">" are an IO number
EndWordBeforeOp(st, c) ==
    IF /\ st.inword /\ st.plain /\ c \in {"<", ">"}
       /\ \A i \in 1..Len(st.word) : st.word[i] \in Digits
    THEN [st EXCEPT !.toks = Append(@, [kind |-> "io", text |-> st.word, exp |-> FALSE]),
                    !.word = <<>>, !.inword = FALSE, !.exp = FALSE, !.plain = TRUE]
    ELSE EndWord(st)

\* an operator character: it extends the operator before it when the two
\* form an operator, and starts a new operator otherwise
AddOp(st, c) ==
    LET n == Len(st.toks)
    IN  IF st.lastop /\ n > 0 /\ (st.toks[n].text \o <<c>>) \in MultiOps
        THEN [st EXCEPT !.toks[n].text = @ \o <<c>>]
        ELSE [st EXCEPT !.toks = Append(@, [kind |-> "op", text |-> <<c>>, exp |-> FALSE]),
                        !.lastop = TRUE]

\* a character that belongs to the word
AddChar(st, c, expands) ==
    [st EXCEPT !.word = Append(@, c), !.inword = TRUE, !.lastop = FALSE,
               !.exp = @ \/ expands]

\* a blank or a newline between tokens
Separate(st, c) ==
    IF c = "\n"
    THEN [EndWord(st) EXCEPT
             !.toks = Append(@, [kind |-> "op", text |-> <<c>>, exp |-> FALSE]),
             !.mode = "n", !.lastop = FALSE]
    ELSE [EndWord(st) EXCEPT !.lastop = FALSE]

\* the shell reads one character c in state st; the modes are n (unquoted),
\* s and d (inside single and double quotes), nb and db (after a backslash,
\* unquoted and inside double quotes) and c (inside a comment)
LexStep(st, c) ==
    CASE st.mode = "s" ->
          IF c = "'" THEN [st EXCEPT !.mode = "n"] ELSE AddChar(st, c, FALSE)
      [] st.mode = "d" ->
          IF c = "\"" THEN [st EXCEPT !.mode = "n"]
          ELSE IF c = "\\" THEN [st EXCEPT !.mode = "db"]
          ELSE AddChar(st, c, c \in {"$", Backtick})
      [] st.mode = "db" ->
          IF c = "\n" THEN [st EXCEPT !.mode = "d"]
          ELSE IF c \in DQuoteEscapable THEN [AddChar(st, c, FALSE) EXCEPT !.mode = "d"]
          ELSE [AddChar(AddChar(st, "\\", FALSE), c, FALSE) EXCEPT !.mode = "d"]
      [] st.mode = "nb" ->
          IF c = "\n" THEN [st EXCEPT !.mode = "n"]
          ELSE [AddChar(st, c, FALSE) EXCEPT !.mode = "n", !.plain = FALSE]
      [] st.mode = "c" ->
          IF c = "\n" THEN Separate(st, c) ELSE st
      [] OTHER ->
          IF c \in Blanks \cup {"\n"} THEN Separate(st, c)
          ELSE IF c \in OpChars THEN AddOp(EndWordBeforeOp(st, c), c)
          ELSE IF c = "'" THEN
              [st EXCEPT !.mode = "s", !.inword = TRUE, !.plain = FALSE, !.lastop = FALSE]
          ELSE IF c = "\"" THEN
              [st EXCEPT !.mode = "d", !.inword = TRUE, !.plain = FALSE, !.lastop = FALSE]
          ELSE IF c = "\\" THEN [st EXCEPT !.mode = "nb", !.lastop = FALSE]
          ELSE IF c = "#" /\ ~st.inword THEN [st EXCEPT !.mode = "c"]
          ELSE IF c \in {"$", Backtick, "*", "?", "["} THEN AddChar(st, c, TRUE)
          ELSE IF c = "~" /\ ~st.inword THEN AddChar(st, c, TRUE)
          ELSE AddChar(st, c, FALSE)

RECURSIVE Lex(_, _, _, _)
\* the state after reading s[lo..hi] from state st (halving keeps the
\* evaluation shallow)
Lex(s, lo, hi, st) ==
    IF lo > hi THEN st
    ELSE IF lo = hi THEN LexStep(st, s[lo])
    ELSE LET mid == (lo + hi) \div 2
             left == Lex(s, lo, mid, st)
         IN  IF left.mode = "" THEN left ELSE Lex(s, mid + 1, hi, left)

\* the tokens of a command string; err when a quote is left open
Shell(s) ==
    LET st == Lex(s, 1, Len(s), LexStart)
        end == IF st.mode = "nb" THEN AddChar(st, "\\", FALSE) ELSE st
    IN  [toks |-> EndWord(end).toks, err |-> st.mode \in {"s", "d", "db"}]

Word(w) == [kind |-> "word", text |-> w, exp |-> FALSE]
Expanded(w) == [kind |-> "word", text |-> w, exp |-> TRUE]
Op(o) == [kind |-> "op", text |-> o, exp |-> FALSE]
IoNumber(n) == [kind |-> "io", text |-> n, exp |-> FALSE]

----------------------------------------------------------------------------
(* The command string alone: every instruction over ShellAlphabet          *)

ShellAlphabet == {" ", "\n", "'", "\"", "$", Backtick, ";", "\\", "a"}

QuoteInstructions == StringsUpTo(ShellAlphabet, MaxLen)

InitQuote ==
    /\ model_name \in {None, Some(Slash(openai, <<"x">>))}
    /\ _version = None
    /\ environ = [k \in KeyVars \cup {"PATH"} |-> IF k = "PATH" THEN "/usr/bin" ELSE KeyValue[k]]
    /\ context \in Contexts
    /\ returned = NoCall
    /\ frames = [t \in Threads |-> IdleFrame]
    /\ heap = <<>>
    /\ results = [t \in Threads |-> None]

\* one call per run: the command is a function of the instruction
NextQuote ==
    /\ returned = NoCall
    /\ \E instruction \in QuoteInstructions : CreateRunAgentCommands(instruction)

SpecQuote == InitQuote /\ [][NextQuote]_vars

----------------------------------------------------------------------------
(* create_run_agent_commands statement by statement, for concurrent calls. *)
(* A frame holds the locals of one call, pc the line it is about to run;   *)
(* env is a reference into heap.  Statements that touch only locals run    *)
(* together with the next statement that reads or writes shared state.     *)

\* mutant: the calls share one dict object instead of building their own
NewDict_Shared(h) == 1

\* "env: dict[str, str] = {}", line 35: the reference of a new dict object
NewDict(h) == Len(h) + 1

\* the heap with the dict at reference r created empty
Allocate(h, r) == [i \in 1..(IF r > Len(h) THEN r ELSE Len(h)) |-> IF i = r THEN EmptyDict ELSE h[i]]

\* the variable an "if provider == ..." statement looks up, by line
VarAt(pc) ==
    CASE pc \in {"l39", "l41", "l53", "l54"} -> ANTHROPIC_API_KEY
      [] pc \in {"l43", "l45"} -> OPENAI_API_KEY
      [] OTHER -> GEMINI_API_KEY

\* the condition of the if statement of lines 39, 43 and 47
TestAt(pc, provider) ==
    CASE pc = "l39" -> provider = anthropic \/ provider = <<>>
      [] pc = "l43" -> provider = openai
      [] OTHER -> provider = gemini \/ provider = google

\* the line after an if statement whose test fails, or after its body
After(pc) ==
    CASE pc \in {"l39", "l41"} -> "l43"
      [] pc \in {"l43", "l45"} -> "l47"
      [] OTHER -> "l57"

\* the line of "if api_key:" after a lookup
SetLine(pc) ==
    CASE pc = "l39" -> "l41"
      [] pc = "l43" -> "l45"
      [] pc = "l47" -> "l49"
      [] OTHER -> "l54"

Others == UNCHANGED <<model_name, _version, environ, context, returned>>

\* a thread enters the method; line 32 quotes the instruction
Call(t, instruction) ==
    /\ frames[t].pc = "idle"
    /\ frames' = [frames EXCEPT ![t].pc = "l35",
                                ![t].instruction = instruction,
                                ![t].escaped_instruction = quote(instruction)]
    /\ UNCHANGED <<heap, results>>
    /\ Others

\* line 35
NewEnv(t) ==
    /\ frames[t].pc = "l35"
    /\ heap' = Allocate(heap, NewDict(heap))
    /\ frames' = [frames EXCEPT ![t].pc = "l37", ![t].env = NewDict(heap)]
    /\ UNCHANGED results
    /\ Others

\* lines 37-38
TestModelName(t) ==
    /\ frames[t].pc = "l37"
    /\ frames' = IF TruthySeq(model_name)
                 THEN [frames EXCEPT ![t].pc = "l39",
                                     ![t].provider = ProviderOf(model_name[1])]
                 ELSE [frames EXCEPT ![t].pc = "l53"]
    /\ UNCHANGED <<heap, results>>
    /\ Others

\* lines 39-40, 43-44, 47-48: the test, and the lookup when it holds
IfProvider(t) ==
    /\ frames[t].pc \in {"l39", "l43", "l47"}
    /\ frames' = IF TestAt(frames[t].pc, frames[t].provider)
                 THEN [frames EXCEPT ![t].pc = SetLine(frames[t].pc),
                                     ![t].api_key = EnvironGet(environ, VarAt(frames[t].pc))]
                 ELSE [frames EXCEPT ![t].pc = After(frames[t].pc)]
    /\ UNCHANGED <<heap, results>>
    /\ Others

\* line 53: the lookup of the default path
DefaultKey(t) ==
    /\ frames[t].pc = "l53"
    /\ frames' = [frames EXCEPT ![t].pc = "l54",
                                ![t].api_key = EnvironGet(environ, ANTHROPIC_API_KEY)]
    /\ UNCHANGED <<heap, results>>
    /\ Others

\* lines 41-42, 45-46, 49-50, 54-55: if api_key: env[...] = api_key
SetKey(t) ==
    /\ frames[t].pc \in {"l41", "l45", "l49", "l54"}
    /\ heap' = IF frames[t].api_key # ""
               THEN [heap EXCEPT ![frames[t].env] =
                        DictSet(@, VarAt(frames[t].pc), frames[t].api_key)]
               ELSE heap
    /\ frames' = [frames EXCEPT ![t].pc = After(frames[t].pc)]
    /\ UNCHANGED results
    /\ Others

\* lines 57-66: the list with the one ExecInput, which holds the env object
Return(t) ==
    /\ frames[t].pc = "l57"
    /\ results' = [results EXCEPT ![t] =
                      Some(<< [command |-> Command(frames[t].escaped_instruction),
                               env |-> frames[t].env] >>)]
    /\ frames' = [frames EXCEPT ![t].pc = "done"]
    /\ UNCHANGED heap
    /\ Others

ConcInstructions == {<<"a">>, <<"'", " ">>}

ConcNames ==
    {None, Some(<<>>), Some(claude), Some(Slash(anthropic, <<"x">>)),
     Some(Slash(openai, <<"g","p","t","-","5">>)), Some(Slash(gemini, <<"p","r","o">>)),
     Some(Slash(google, <<"x">>)), Some(Slash(unknownprovider, <<"x">>))}

\* all three keys set; the gemini key empty; the anthropic key absent
ConcEnvirons ==
    { [k \in KeyVars \cup {"PATH"} |-> IF k = "PATH" THEN "/usr/bin" ELSE KeyValue[k]],
      [k \in KeyVars \cup {"PATH"} |->
          IF k = "PATH" THEN "/usr/bin" ELSE IF k = GEMINI_API_KEY THEN "" ELSE KeyValue[k]],
      [k \in {OPENAI_API_KEY, GEMINI_API_KEY, "PATH"} |->
          IF k = "PATH" THEN "/usr/bin" ELSE KeyValue[k]] }

InitConc ==
    /\ model_name \in ConcNames
    /\ _version = None
    /\ environ \in ConcEnvirons
    /\ context = [n_input_tokens |-> None]
    /\ returned = NoCall
    /\ frames = [t \in Threads |-> IdleFrame]
    /\ heap = <<>>
    /\ results = [t \in Threads |-> None]

NextConc ==
    \E t \in Threads :
        \/ \E instruction \in ConcInstructions : Call(t, instruction)
        \/ NewEnv(t)
        \/ TestModelName(t)
        \/ IfProvider(t)
        \/ DefaultKey(t)
        \/ SetKey(t)
        \/ Return(t)

SpecConc == InitConc /\ [][NextConc]_vars

----------------------------------------------------------------------------
(* Claims                                                                  *)

Created == returned.op = "create_run_agent_commands"

Env == returned.value[1].env

Cmd == returned.value[1].command

IsSet(k) == k \in DOMAIN environ /\ environ[k] # ""

Range(s) == {s[i] : i \in 1..Len(s)}

\* the text of a name before its first "/"; the name holds a "/"
BeforeFirstSlash(n) ==
    CHOOSE p \in {SubSeq(n, 1, k) : k \in 0..(Len(n) - 1)} :
        "/" \notin Range(p) /\ n[Len(p) + 1] = "/"

\* the provider the specification resolves: "" for an absent, empty or bare name
ResolvedProvider(mn) ==
    IF mn = None THEN <<>>
    ELSE IF "/" \in Range(mn[1]) THEN BeforeFirstSlash(mn[1]) ELSE <<>>

\* the key variable of a provider, if it has one
VarsOfProvider(p) ==
    IF p = anthropic \/ p = <<>> THEN {ANTHROPIC_API_KEY}
    ELSE IF p = openai THEN {OPENAI_API_KEY}
    ELSE IF p = gemini \/ p = google THEN {GEMINI_API_KEY}
    ELSE {}

\* C1: the environment map of a returned descriptor holds no key but the
\* API-key variable of the resolved provider, hence at most one of the three,
\* and holds it only if the ambient environment has it set and non-empty.
C1_AtMostTheResolvedKey ==
    Created =>
        /\ DOMAIN Env \subseteq KeyVars
        /\ Cardinality(DOMAIN Env) <= 1
        /\ DOMAIN Env \subseteq VarsOfProvider(ResolvedProvider(model_name))
        /\ \A k \in DOMAIN Env : IsSet(k)

\* a call for an openai model with all three keys set returned the openai key alone
C1_Witness ==
    /\ Created
    /\ ResolvedProvider(model_name) = openai
    /\ \A k \in KeyVars : IsSet(k)
    /\ DOMAIN Env = {OPENAI_API_KEY}

\* C2: when the provider resolves to a key variable V, V is in the map iff V
\* is set and non-empty in the ambient environment; then the map is exactly
\* {V: ambient value}, otherwise it is empty; no value of the map is "".
C2_CopiedIffSet ==
    Created =>
        /\ \A V \in VarsOfProvider(ResolvedProvider(model_name)) :
              /\ V \in DOMAIN Env <=> IsSet(V)
              /\ IsSet(V) => Env = [k \in {V} |-> environ[V]]
              /\ ~IsSet(V) => Env = EmptyDict
        /\ \A k \in DOMAIN Env : Env[k] # ""

\* 'openai/gpt-5' with OPENAI_API_KEY = "k1" returned exactly {OPENAI_API_KEY: "k1"}
C2_Witness ==
    /\ Created
    /\ model_name = Some(Slash(openai, <<"g","p","t","-","5">>))
    /\ EnvironGet(environ, OPENAI_API_KEY) = "k1"
    /\ Env = [k \in {OPENAI_API_KEY} |-> "k1"]

\* C3: for a name 'p/x' whose provider p is none of anthropic, openai,
\* gemini, google and "", the call returns its one descriptor and the map is
\* empty whatever the ambient environment holds; the comparison is exact.
C3_UnknownProviderNoKey ==
    (Created /\ VarsOfProvider(ResolvedProvider(model_name)) = {}) =>
        /\ Len(returned.value) = 1
        /\ Env = EmptyDict

\* 'OpenAI/x' with all three keys set returned one descriptor with an empty map
C3_Witness ==
    /\ Created
    /\ model_name = Some(Slash(<<"O","p","e","n","A","I">>, <<"x">>))
    /\ \A k \in KeyVars : IsSet(k)
    /\ Len(returned.value) = 1
    /\ Env = EmptyDict

\* C4: for an absent, empty or slash-free model name the map is
\* {ANTHROPIC_API_KEY: value} if that variable is set and non-empty, and
\* empty otherwise, whatever OPENAI_API_KEY and GEMINI_API_KEY hold.
C4_DefaultIsAnthropic ==
    (Created /\ (model_name = None \/ "/" \notin Range(model_name[1]))) =>
        Env = IF IsSet(ANTHROPIC_API_KEY)
              THEN [k \in {ANTHROPIC_API_KEY} |-> environ[ANTHROPIC_API_KEY]]
              ELSE EmptyDict

\* the bare name 'openai' with the openai and anthropic keys set returned the
\* anthropic key
C4_Witness ==
    /\ Created
    /\ model_name = Some(<<"o","p","e","n","a","i">>)
    /\ IsSet(OPENAI_API_KEY) /\ IsSet(ANTHROPIC_API_KEY)
    /\ DOMAIN Env = {ANTHROPIC_API_KEY}

\* what the shell must see for an instruction: the PATH assignment, "&&",
\* cpe with its three flags and the instruction as one unexpanded word, the
\* redirection 2>&1, and the pipe into tee with the log file
ExpectedTokens(instruction) ==
    << Word(<<"e","x","p","o","r","t">>),
       Expanded(<<"P","A","T","H","=","/","r","o","o","t","/","g","o","/","b","i","n",
                  ":","/","u","s","r","/","l","o","c","a","l","/","g","o","/","b","i",
                  "n",":","$","P","A","T","H">>),
       Op(<<"&","&">>),
       Word(<<"c","p","e">>), Word(<<"-","n">>), Word(<<"-","G">>),
       Word(<<"-","-","s","k","i","p","-","s","t","d","i","n">>),
       Word(instruction),
       IoNumber(<<"2">>), Op(<<">","&">>), Word(<<"1">>),
       Op(<<"|">>),
       Word(<<"t","e","e">>),
       Word(<<"/","l","o","g","s","/","a","g","e","n","t","/","c","p","e",".","t","x","t">>) >>

\* C5: read by a POSIX shell, the command has after the word --skip-stdin
\* exactly one argument, equal to the instruction character for character,
\* and no character of the instruction acts as an operator, an expansion or
\* a separator: the tokens around it are the fixed ones.
C5_InstructionIsOneArgument ==
    Created =>
        /\ ~Shell(Cmd).err
        /\ Shell(Cmd).toks = ExpectedTokens(returned.arg)

\* an instruction made of a quote, a semicolon and a dollar sign was passed
C5_Witness ==
    /\ Created
    /\ returned.arg = <<"'", ";", "$">>
    /\ Shell(Cmd).toks[8] = Word(<<"'", ";", "$">>)

\* the command up to the instruction argument
FixedHead ==
    <<"e","x","p","o","r","t"," ","P","A","T","H","=","\"","/","r","o","o","t","/",
      "g","o","/","b","i","n",":","/","u","s","r","/","l","o","c","a","l","/","g","o",
      "/","b","i","n",":","$","P","A","T","H","\""," ","&","&"," ","c","p","e"," ","-",
      "n"," ","-","G"," ","-","-","s","k","i","p","-","s","t","d","i","n"," ">>

Redirection == <<" ","2",">","&","1"," ">>

\* where the text " 2>&1 " starts in a command
RedirectionAt(cmd) ==
    {i \in 1..(Len(cmd) - Len(Redirection) + 1) :
        SubSeq(cmd, i, i + Len(Redirection) - 1) = Redirection}

\* the text between the fixed head and the last " 2>&1 "
ArgumentText(cmd) ==
    IF RedirectionAt(cmd) = {} THEN <<>>
    ELSE LET k == CHOOSE i \in RedirectionAt(cmd) : \A j \in RedirectionAt(cmd) : j <= i
         IN  SubSeq(cmd, Len(FixedHead) + 1, k - 1)

\* where the pipe operators are among the tokens
PipeAt(toks) == {i \in 1..Len(toks) : toks[i] = Op(<<"|">>)}

\* the words of the last stage of the pipeline
PipeStage(toks) ==
    IF PipeAt(toks) = {} THEN <<>>
    ELSE LET k == CHOOSE i \in PipeAt(toks) : \A j \in PipeAt(toks) : j <= i
         IN  SubSeq(toks, k + 1, Len(toks))

TeeWord == Word(<<"t","e","e">>)
LogFileWord ==
    Word(<<"/","l","o","g","s","/","a","g","e","n","t","/","c","p","e",".","t","x","t">>)

\* the stage runs tee on the log file and something in it asks for line
\* buffering: a wrapper before tee (stdbuf -oL) or an option
LineBufferedTee(stage) ==
    /\ Len(stage) > 2
    /\ \E i \in 1..Len(stage) : stage[i] = TeeWord
    /\ stage[Len(stage)] = LogFileWord

\* the PATH prefix with the two directories ahead of $PATH, cpe with its
\* fixed flags, the instruction as the one argument, then 2>&1 and a pipe
HeadAndArgument ==
    /\ SubSeq(Cmd, 1, Len(FixedHead)) = FixedHead
    /\ Shell(ArgumentText(Cmd)) = [toks |-> <<Word(returned.arg)>>, err |-> FALSE]
    /\ PipeAt(Shell(Cmd).toks) # {}
    /\ LET toks == Shell(Cmd).toks
           n == Len(toks) - Len(PipeStage(toks))
       IN  n > 3 /\ SubSeq(toks, n - 3, n)
                      = <<IoNumber(<<"2">>), Op(<<">","&">>), Word(<<"1">>), Op(<<"|">>)>>

\* C6 as stated: the command is the PATH prefix, 'cpe -n -G --skip-stdin' and
\* the escaped instruction, then combined stdout+stderr piped through a
\* line-buffered tee to /logs/agent/cpe.txt.
C6_LineBufferedTee ==
    Created => (HeadAndArgument /\ LineBufferedTee(PipeStage(Shell(Cmd).toks)))

\* C6 amended: the same shape, determined by the instruction alone, with the
\* output piped through a plain "tee /logs/agent/cpe.txt": the command asks
\* for no line buffering.
C6_PlainTee ==
    Created => (HeadAndArgument /\ PipeStage(Shell(Cmd).toks) = <<TeeWord, LogFileWord>>)

\* a call for 'openai/gpt-5' with its key set built the command for the
\* instruction "'"
C6_Witness ==
    /\ Created
    /\ model_name = Some(Slash(openai, <<"g","p","t","-","5">>))
    /\ IsSet(OPENAI_API_KEY)
    /\ returned.arg = <<"'">>
    /\ PipeStage(Shell(Cmd).toks) = <<TeeWord, LogFileWord>>

\* C7: every call of create_run_agent_commands returns a list of length 1.
C7_OneDescriptor == Created => Len(returned.value) = 1

\* a call with an unknown provider and no key to forward returned one descriptor
C7_Witness ==
    /\ Created
    /\ ResolvedProvider(model_name) = unknownprovider
    /\ Env = EmptyDict
    /\ Len(returned.value) = 1

\* C8: version() returns "latest" when no version is configured (None or
\* empty) and the configured version otherwise; never None, never "".
C8_VersionOrLatest ==
    returned.op = "version" =>
        /\ returned.value = IF _version = None \/ _version = Some("")
                            THEN Some("latest") ELSE _version
        /\ returned.value \notin {None, Some("")}

\* version() on an adapter with no version configured returned "latest"
C8_Witness ==
    /\ returned.op = "version"
    /\ _version = None
    /\ returned.value = Some("latest")

\* C9: no call changes the run context, the ambient environment, or the
\* adapter's configured model name and version.
C9_NothingElseChanges == [][UNCHANGED <<model_name, _version, environ, context>>]_vars

\* the post-run hook ran on a context that holds data
C9_Witness ==
    /\ returned.op = "populate_context_post_run"
    /\ context = [n_input_tokens |-> Some(10)]

\* C10: under any interleaving of concurrent calls with the ambient
\* environment fixed, every finished call has returned the one descriptor it
\* returns when run alone (the same command, the same map), and the maps of
\* two finished calls are different objects.
C10_ConcurrentCallsAreIndependent ==
    \A t \in Threads :
        frames[t].pc = "done" =>
            LET alone == RunAgentCommands(frames[t].instruction, model_name, environ)
                got == results[t][1]
            IN  /\ Len(got) = 1
                /\ got[1].command = alone[1].command
                /\ heap[got[1].env] = alone[1].env
                /\ \A u \in Threads \ {t} :
                       frames[u].pc = "done" => results[u][1][1].env # got[1].env

\* two calls that ran interleaved have both returned, each with a key in its map
C10_Witness ==
    /\ \A t \in Threads : frames[t].pc = "done"
    /\ frames[1].instruction # frames[2].instruction
    /\ \A t \in Threads : heap[results[t][1][1].env] # EmptyDict

====
